---- MODULE Spec2Model ----
(***************************************************************************)
(* Muuid (maya_uuid): identity attributes on the nodes of a Maya scene.    *)
(* The scene (nodes, their edit-lock and reference flags, the identity     *)
(* attribute with its value and write-lock) is the state of the host; the  *)
(* module's functions are operators over it and one action per call.       *)
(***************************************************************************)
EXTENDS Integers, Sequences, FiniteSets, TLC

VARIABLES scene, creation_callback_ids, subscriptions, next_id, op, ret, warnings,
          assigned

vars == <<scene, creation_callback_ids, subscriptions, next_id, op, ret, warnings,
          assigned>>

\* ------------------------------------------------------------------ bounds
\* How many distinct outcomes of the random source uuid4 draws from.
NumSeeds == 2
\* How many subscription handles the host hands out in one run.
MaxHandles == 2

\* ------------------------------------------------------------------ config.py
UUID_ATTR_NAME == "fd_node_uuid"

TRACKABLE_NODE_TYPES == <<"transform", "mesh", "nurbsSurface">>

UNWANTED_NODES == << >>

DEFAULT_NODES ==
    << "|persp", "|persp|perspShape", "|top", "|top|topShape", "|front",
       "|front|frontShape", "|side", "|side|sideShape", "|defaultLightSet",
       "|defaultObjectSet", "|defaultLayer", "|layerManager", "|dof1",
       "|dynController1", "|globalCacheControl", "|hardwareRenderGlobals",
       "|hardwareRenderingGlobals", "|defaultHardwareRenderGlobals",
       "|ikSystem", "|lambert1", "|lightLinker1", "|particleCloud1",
       "|characterPartition", "|renderPartition", "|defaultRenderLayer",
       "|sequenceManager1", "|shaderGlow1", "|strokeGlobals", "|time1",
       "|defaultViewColorManager" >>

\* ------------------------------------------------------------------ the scene
\* The full paths a scene of the model can hold, in the order mc.ls lists them.
NodeOrder == << "|persp", "|group1", "|group1|mesh1", "lambert2" >>

Paths == { NodeOrder[i] : i \in 1..Len(NodeOrder) }

\* The host's node type of each path.
NodeType(p) ==
    CASE p = "|persp"        -> "transform"
      [] p = "|group1"       -> "transform"
      [] p = "|group1|mesh1" -> "mesh"
      [] OTHER               -> "lambert"

\* DAG nodes (MFn.kDagNode) against plain dependency nodes.
IsDagNode(p) == NodeType(p) \in {"transform", "mesh", "nurbsSurface"}

\* MFnDependencyNode.name() of a node that is no DAG node.
NodeName(p) == p

Range(seq) == { seq[i] : i \in 1..Len(seq) }

None == "None"

\* The failures of the host and of the interpreter a call can end with.
AttrExistsError == "RuntimeError: attribute already exists"
NodeLockedError == "RuntimeError: node is locked"
MissingAttrError == "ValueError: no attribute matches name"
NameError == "NameError: uuid_attr_name"

NoAttr == [has |-> FALSE, val |-> << >>, lock |-> FALSE]

Absent == [exists |-> FALSE, locked |-> FALSE, referenced |-> FALSE, attr |-> NoAttr]

Fresh == [exists |-> TRUE, locked |-> FALSE, referenced |-> FALSE, attr |-> NoAttr]

\* ------------------------------------------------------------------ uuid.uuid4().hex
HexDigits == << "0", "1", "2", "3", "4", "5", "6", "7",
                "8", "9", "a", "b", "c", "d", "e", "f" >>

\* The 16 bytes os.urandom hands to uuid4, one outcome per seed.
RandomBytes(seed) == [ i \in 1..16 |-> (seed * 97 + i * 61) % 256 ]

\* uuid.UUID(bytes=..., version=4): the variant bits of byte 8 and the
\* version nibble of byte 6 (bytes counted from 0) are overwritten.
Uuid4Bytes(seed) ==
    LET b == RandomBytes(seed) IN
    [ i \in 1..16 |->
        IF i = 7 THEN (b[i] % 16) + 64
        ELSE IF i = 9 THEN (b[i] % 64) + 128
        ELSE b[i] ]

RECURSIVE HexOfBytes(_, _)
\* '%032x' % int: two lowercase hexadecimal digits per byte, zero padded.
HexOfBytes(bytes, i) ==
    IF i > Len(bytes) THEN << >>
    ELSE << HexDigits[(bytes[i] \div 16) + 1], HexDigits[(bytes[i] % 16) + 1] >>
         \o HexOfBytes(bytes, i + 1)

RECURSIVE StrOfBytes(_, _)
\* str(uuid.uuid4()): the dashed 36-character form.
StrOfBytes(bytes, i) ==
    IF i > Len(bytes) THEN << >>
    ELSE (IF i \in {5, 7, 9, 11} THEN << "-" >> ELSE << >>)
         \o << HexDigits[(bytes[i] \div 16) + 1], HexDigits[(bytes[i] % 16) + 1] >>
         \o StrOfBytes(bytes, i + 1)

Seeds == 1..NumSeeds

\* The two renderings of each outcome, computed once.
StrTable == [ seed \in Seeds |-> StrOfBytes(Uuid4Bytes(seed), 1) ]

HexTable == [ seed \in Seeds |-> HexOfBytes(Uuid4Bytes(seed), 1) ]

uuid4_str(seed) == StrTable[seed]

\* uuid.uuid4().hex
uuid4_hex(seed) == HexTable[seed]

\* ------------------------------------------------------------------ host queries
\* mc.ls( long = True )
ls_all(s) == SelectSeq(NodeOrder, LAMBDA p : s[p].exists)

\* mc.ls( long = True, type = types )
ls_type(s, types) ==
    SelectSeq(NodeOrder, LAMBDA p : s[p].exists /\ NodeType(p) \in Range(types))

\* mc.ls( node, long = True ): a list, of the one full path when the node exists.
ls_node(s, node) ==
    IF node \in Paths /\ s[node].exists THEN << node >> ELSE << >>

\* ------------------------------------------------------------------ __init__.py
\* uuid_nodes(): every node supposed to carry an identity.
uuid_nodes(s) ==
    LET unwanted_nodes == DEFAULT_NODES \o UNWANTED_NODES IN
    SelectSeq(ls_type(s, TRACKABLE_NODE_TYPES),
              LAMBDA node : node \notin Range(unwanted_nodes))

has_uuid(s, node) == s[node].attr.has

\* get_uuid(node): mc.getAttr fails when the attribute does not exist.
get_uuid(s, node) ==
    IF s[node].attr.has
    THEN [status |-> "ok", val |-> s[node].attr.val]
    ELSE [status |-> "error", val |-> MissingAttrError]

\* uuid_missing_nodes()
uuid_missing_nodes(s) ==
    SelectSeq(uuid_nodes(s),
              LAMBDA node : ~s[node].referenced /\ ~has_uuid(s, node))


\* set_uuid as a guarded overwrite: the attribute is created only when it is
\* missing, and the value is written (unlocking first) in every case.
set_uuid_overwrite(s, node, seed) ==
    IF s[node].locked /\ ~s[node].attr.has
    THEN [status |-> "error", val |-> NodeLockedError, scene |-> s]
    ELSE [status |-> "ok", val |-> None,
          scene |-> [s EXCEPT ![node].attr =
                        [has |-> TRUE, val |-> uuid4_hex(seed), lock |-> TRUE]]]

\* set_uuid(node): mc.addAttr fails on an attribute that exists and on an
\* edit-locked node; mc.setAttr then writes the value and locks the attribute.
set_uuid(s, node, seed) ==
    IF s[node].attr.has
    THEN [status |-> "error", val |-> AttrExistsError, scene |-> s]
    ELSE IF s[node].locked
    THEN [status |-> "error", val |-> NodeLockedError, scene |-> s]
    ELSE [status |-> "ok", val |-> None,
          scene |-> [s EXCEPT ![node].attr =
                        [has |-> TRUE, val |-> uuid4_hex(seed), lock |-> TRUE]]]

RECURSIVE set_all_uuids_loop(_, _, _)
\* for node in uuid_missing_nodes() : set_uuid( node ); a failure propagates
\* and keeps what was assigned before it.
set_all_uuids_loop(s, nodes, seedOf) ==
    IF nodes = << >> THEN [status |-> "ok", val |-> None, scene |-> s]
    ELSE LET r == set_uuid(s, Head(nodes), seedOf[Head(nodes)]) IN
         IF r.status = "error" THEN r
         ELSE set_all_uuids_loop(r.scene, Tail(nodes), seedOf)

\* set_all_uuids stopping after the first node it tags.
set_all_uuids_first_only(s, seedOf) ==
    LET nodes == uuid_missing_nodes(s) IN
    IF nodes = << >> THEN [status |-> "ok", val |-> None, scene |-> s]
    ELSE set_uuid(s, Head(nodes), seedOf[Head(nodes)])

\* set_all_uuids(): uuid_missing_nodes() filters lazily, on a listing taken
\* once; set_uuid changes the visited node only, so the filter is the same
\* on the scene the loop starts from.
set_all_uuids(s, seedOf) == set_all_uuids_loop(s, uuid_missing_nodes(s), seedOf)

Warn(msg, node) == [msg |-> msg, node |-> node]

RECURSIVE check_safety_stop_first(_, _, _, _)
\* check_safety returning at the first offending node.
check_safety_stop_first(s, nodes, safe, warns) ==
    IF nodes = << >> THEN [val |-> safe, warnings |-> warns]
    ELSE LET node == Head(nodes) IN
         IF s[node].locked
         THEN [val |-> FALSE, warnings |-> warns \o << Warn("node locked", node) >>]
         ELSE IF s[node].referenced
         THEN [val |-> FALSE, warnings |-> warns \o << Warn("node in reference", node) >>]
         ELSE check_safety_stop_first(s, Tail(nodes), safe, warns)

RECURSIVE check_safety_loop(_, _, _, _)
\* The loop of check_safety(): two independent tests per node, no early exit.
check_safety_loop(s, nodes, safe, warns) ==
    IF nodes = << >> THEN [val |-> safe, warnings |-> warns]
    ELSE LET node == Head(nodes)
             w1 == IF s[node].locked
                   THEN warns \o << Warn("node locked", node) >> ELSE warns
             w2 == IF s[node].referenced
                   THEN w1 \o << Warn("node in reference", node) >> ELSE w1
             safe2 == safe /\ ~s[node].locked /\ ~s[node].referenced
         IN check_safety_loop(s, Tail(nodes), safe2, w2)

check_safety(s) == check_safety_loop(s, uuid_nodes(s), TRUE, << >>)

RECURSIVE check_uuids_no_lock_test(_, _)
\* check_uuids without the test of the attribute's lock.
check_uuids_no_lock_test(s, nodes) ==
    IF nodes = << >> THEN [val |-> TRUE, warnings |-> << >>]
    ELSE LET node == Head(nodes) IN
         IF ~has_uuid(s, node)
         THEN [val |-> FALSE, warnings |-> << Warn("supposed to have a uuid", node) >>]
         ELSE IF get_uuid(s, node).val = << >>
         THEN [val |-> FALSE, warnings |-> << Warn("invalid uuid value", node) >>]
         ELSE IF Len(get_uuid(s, node).val) # 32
         THEN [val |-> FALSE, warnings |-> << Warn("invalid uuid value", node) >>]
         ELSE check_uuids_no_lock_test(s, Tail(nodes))

RECURSIVE check_uuids_loop(_, _)
\* The loop of check_uuids(): four tests per node, return False at the first
\* one that fails.
check_uuids_loop(s, nodes) ==
    IF nodes = << >> THEN [val |-> TRUE, warnings |-> << >>]
    ELSE LET node == Head(nodes) IN
         IF ~has_uuid(s, node)
         THEN [val |-> FALSE, warnings |-> << Warn("supposed to have a uuid", node) >>]
         ELSE IF ~s[node].attr.lock
         THEN [val |-> FALSE, warnings |-> << Warn("unlocked uuid", node) >>]
         ELSE IF get_uuid(s, node).val = << >>
         THEN [val |-> FALSE, warnings |-> << Warn("invalid uuid value", node) >>]
         ELSE IF Len(get_uuid(s, node).val) # 32
         THEN [val |-> FALSE, warnings |-> << Warn("invalid uuid value", node) >>]
         ELSE check_uuids_loop(s, Tail(nodes))

check_uuids(s) == check_uuids_loop(s, uuid_nodes(s))

RECURSIVE uuid_map_loop(_, _, _)
\* The loop of uuid_map(): the dict is a set of <<key, value>> pairs, and an
\* assignment to a key replaces the pair of that key.
uuid_map_loop(s, nodes, uuid_dict) ==
    IF nodes = << >> THEN [status |-> "ok", val |-> uuid_dict]
    ELSE LET node == Head(nodes)
             r == get_uuid(s, node)
         IN IF r.status = "error" THEN r
            ELSE uuid_map_loop(s, Tail(nodes),
                     { e \in uuid_dict : e[1] # r.val } \cup { << r.val, node >> })

uuid_map(s) == uuid_map_loop(s, uuid_nodes(s), {})

RECURSIVE get_node_loop(_, _, _)
\* The loop of get_node(): the first node whose value is equal, None at the end.
get_node_loop(s, nodes, uuid_value) ==
    IF nodes = << >> THEN [status |-> "ok", val |-> None]
    ELSE LET r == get_uuid(s, Head(nodes)) IN
         IF r.status = "error" THEN r
         ELSE IF r.val = uuid_value THEN [status |-> "ok", val |-> Head(nodes)]
         ELSE get_node_loop(s, Tail(nodes), uuid_value)

get_node(s, uuid_value) == get_node_loop(s, uuid_nodes(s), uuid_value)

\* Python values of two types, and == between them: values of different
\* types are never equal.
PyList(items) == [tag |-> "list", val |-> items]

PyStr(str) == [tag |-> "str", val |-> str]

PyEq(a, b) == a.tag = b.tag /\ a.val = b.val

\* could_have_uuid( node ): mc.ls( node, long = True ) is a list, and
\* `in` compares it with each string uuid_nodes() yields.
could_have_uuid(s, node) ==
    LET full_path_node == PyList(ls_node(s, node))
        nodes == uuid_nodes(s)
    IN \E i \in 1..Len(nodes) : PyEq(full_path_node, PyStr(nodes[i]))

\* register_uuid_creation_callback(): the host subscribes the handler and
\* hands out a handle, which is appended to the module's list.
register_uuid_creation_callback(ids, subs, next) ==
    LET callback_id == next IN
    [ids |-> Append(ids, callback_id), subs |-> subs \cup {callback_id},
     val |-> callback_id]

\* unregister_all_uuid_creation_callbacks() removing the first handle only.
unregister_first_only(ids, subs) ==
    IF ids = << >> THEN [ids |-> ids, subs |-> subs]
    ELSE [ids |-> << >>, subs |-> subs \ {Head(ids)}]

\* unregister_all_uuid_creation_callbacks(): removeCallback on every handle
\* of the list, then the list is replaced by an empty one.
unregister_all_uuid_creation_callbacks(ids, subs) ==
    [ids |-> << >>, subs |-> subs \ Range(ids)]

\* unregister_all_callbacks()
unregister_all_callbacks(ids, subs) == unregister_all_uuid_creation_callbacks(ids, subs)

\* set_uuid_on_mobject_callback( mobject, data ): the handler the host calls
\* for an added node. A failure inside a callback is reported by the host and
\* goes no further.
set_uuid_on_mobject_callback(s, mobject, seed) ==
    LET nodeFullPath == IF IsDagNode(mobject) THEN mobject
                        ELSE "|" \o NodeName(mobject)
    IN IF could_have_uuid(s, nodeFullPath)
       THEN set_uuid(s, nodeFullPath, seed).scene
       ELSE s

RECURSIVE dispatch_node_added(_, _, _, _)
\* The host calls the handler once per active subscription.
dispatch_node_added(s, count, mobject, seed) ==
    IF count = 0 THEN s
    ELSE dispatch_node_added(set_uuid_on_mobject_callback(s, mobject, seed),
                             count - 1, mobject, seed)

\* The names bound in the module's namespace when a function body runs.
ModuleNames ==
    { "uuid", "mc", "om", "config", "_uuid_attr_name", "_creation_callback_ids",
      "_remove_all_uuids", "_remove_uuid", "set_all_uuids", "set_uuid",
      "uuid_missing_nodes", "uuid_nodes", "could_have_uuid", "uuid_map",
      "get_node", "has_uuid", "get_uuid", "check_safety", "check_uuids",
      "register_uuid_creation_callback",
      "unregister_all_uuid_creation_callbacks", "unregister_all_callbacks" }

\* _remove_uuid( node ): the test of the attribute reads the name
\* uuid_attr_name, which the module does not bind.
remove_uuid(s, node) ==
    IF "uuid_attr_name" \notin ModuleNames
    THEN [status |-> "error", val |-> NameError, scene |-> s, warnings |-> << >>]
    ELSE IF ~s[node].attr.has
    THEN [status |-> "ok", val |-> None, scene |-> s, warnings |-> << >>]
    ELSE [status |-> "ok", val |-> None,
          scene |-> [s EXCEPT ![node].attr = NoAttr],
          warnings |-> IF s[node].referenced
                       THEN << Warn("uuid on a node in reference", node) >>
                       ELSE << >>]

RECURSIVE remove_all_uuids_loop(_, _, _)
\* _remove_all_uuids(): one warning, then _remove_uuid on every node listed.
remove_all_uuids_loop(s, nodes, warns) ==
    IF nodes = << >>
    THEN [status |-> "ok", val |-> None, scene |-> s, warnings |-> warns]
    ELSE LET r == remove_uuid(s, Head(nodes)) IN
         IF r.status = "error"
         THEN [r EXCEPT !.warnings = warns \o r.warnings]
         ELSE remove_all_uuids_loop(r.scene, Tail(nodes), warns \o r.warnings)

remove_all_uuids(s) ==
    remove_all_uuids_loop(s, ls_all(s), << Warn("risky method", None) >>)

\* ------------------------------------------------------------------ scenes
\* Values an identity attribute can hold when the scene is opened: a value
\* minted by set_uuid, nothing, and a value of another length.
MintedValue == uuid4_hex(1)

EmptyValue == << >>

ShortValue == << "a", "b", "c" >>

Tagged(val, lock) == [has |-> TRUE, val |-> val, lock |-> lock]

\* What a user node can be when the scene is opened.
InitNodes ==
    { Absent, Fresh,
      [Fresh EXCEPT !.locked = TRUE],
      [Fresh EXCEPT !.referenced = TRUE],
      [Fresh EXCEPT !.locked = TRUE, !.referenced = TRUE],
      [Fresh EXCEPT !.attr = Tagged(MintedValue, TRUE)],
      [Fresh EXCEPT !.attr = Tagged(MintedValue, FALSE)],
      [Fresh EXCEPT !.attr = Tagged(EmptyValue, TRUE)],
      [Fresh EXCEPT !.attr = Tagged(ShortValue, TRUE)],
      [Fresh EXCEPT !.locked = TRUE, !.attr = Tagged(MintedValue, TRUE)],
      [Fresh EXCEPT !.referenced = TRUE, !.attr = Tagged(MintedValue, TRUE)] }

\* What the shape under the user's group can be when the scene is opened.
InitShapes ==
    { Absent, Fresh,
      [Fresh EXCEPT !.referenced = TRUE],
      [Fresh EXCEPT !.attr = Tagged(MintedValue, TRUE)],
      [Fresh EXCEPT !.attr = Tagged(ShortValue, TRUE)] }

\* The nodes the calls that take a node are made on: the user's nodes.
Targets == { "|group1", "|group1|mesh1" }

\* The parent of a path, for the paths that have one.
ParentOk(s, p) == p = "|group1|mesh1" => s["|group1"].exists

NoCall == [name |-> "none", arg |-> None]

Ok(val) == [status |-> "ok", val |-> val]

Init ==
    /\ scene \in { s \in [Paths -> InitNodes] :
                     /\ s["|persp"] = Fresh
                     /\ s["|group1|mesh1"] \in InitShapes
                     /\ s["lambert2"] \in {Absent, Fresh}
                     /\ ParentOk(s, "|group1|mesh1") \/ ~s["|group1|mesh1"].exists }
    /\ creation_callback_ids = << >>
    /\ subscriptions = {}
    /\ next_id = 1
    /\ op = NoCall
    /\ ret = Ok(None)
    /\ warnings = << >>
    /\ assigned = {}

\* The nodes the last call created the identity attribute on.
NewlyTagged(s, t) == { p \in Paths : ~s[p].attr.has /\ t[p].attr.has }

Existing == { p \in Paths : scene[p].exists }

ExistingTargets == Targets \cap Existing

\* The identity values a caller can ask for.
KnownValues ==
    { scene[p].attr.val : p \in { q \in Existing : scene[q].attr.has } }
        \cup { uuid4_hex(seed) : seed \in Seeds }

\* ------------------------------------------------------------------ calls
Call_set_uuid(node, seed) ==
    /\ node \in ExistingTargets
    /\ LET r == set_uuid(scene, node, seed) IN
         /\ scene' = r.scene
         /\ ret' = [status |-> r.status, val |-> r.val]
    /\ op' = [name |-> "set_uuid", arg |-> node]
    /\ warnings' = << >>
    /\ UNCHANGED <<creation_callback_ids, subscriptions, next_id>>
    /\ assigned' = NewlyTagged(scene, scene')

Call_set_all_uuids(seedOf) ==
    /\ LET r == set_all_uuids(scene, seedOf) IN
         /\ scene' = r.scene
         /\ ret' = [status |-> r.status, val |-> r.val]
    /\ op' = [name |-> "set_all_uuids", arg |-> None]
    /\ warnings' = << >>
    /\ UNCHANGED <<creation_callback_ids, subscriptions, next_id>>
    /\ assigned' = NewlyTagged(scene, scene')

Call_check_safety ==
    /\ LET r == check_safety(scene) IN
         /\ ret' = Ok(r.val)
         /\ warnings' = r.warnings
    /\ op' = [name |-> "check_safety", arg |-> None]
    /\ UNCHANGED <<scene, creation_callback_ids, subscriptions, next_id>>
    /\ assigned' = {}

Call_check_uuids ==
    /\ LET r == check_uuids(scene) IN
         /\ ret' = Ok(r.val)
         /\ warnings' = r.warnings
    /\ op' = [name |-> "check_uuids", arg |-> None]
    /\ UNCHANGED <<scene, creation_callback_ids, subscriptions, next_id>>
    /\ assigned' = {}

Call_uuid_map ==
    /\ ret' = uuid_map(scene)
    /\ op' = [name |-> "uuid_map", arg |-> None]
    /\ warnings' = << >>
    /\ UNCHANGED <<scene, creation_callback_ids, subscriptions, next_id>>
    /\ assigned' = {}

Call_get_node(uuid_value) ==
    /\ ret' = get_node(scene, uuid_value)
    /\ op' = [name |-> "get_node", arg |-> uuid_value]
    /\ warnings' = << >>
    /\ UNCHANGED <<scene, creation_callback_ids, subscriptions, next_id>>
    /\ assigned' = {}

Call_get_uuid(node) ==
    /\ node \in ExistingTargets
    /\ ret' = get_uuid(scene, node)
    /\ op' = [name |-> "get_uuid", arg |-> node]
    /\ warnings' = << >>
    /\ UNCHANGED <<scene, creation_callback_ids, subscriptions, next_id>>
    /\ assigned' = {}

Call_register_uuid_creation_callback ==
    /\ next_id <= MaxHandles
    /\ LET r == register_uuid_creation_callback(creation_callback_ids,
                                                subscriptions, next_id) IN
         /\ creation_callback_ids' = r.ids
         /\ subscriptions' = r.subs
         /\ ret' = Ok(r.val)
    /\ next_id' = next_id + 1
    /\ op' = [name |-> "register_uuid_creation_callback", arg |-> None]
    /\ warnings' = << >>
    /\ UNCHANGED scene
    /\ assigned' = {}

Call_unregister_all_uuid_creation_callbacks ==
    /\ LET r == unregister_all_uuid_creation_callbacks(creation_callback_ids,
                                                       subscriptions) IN
         /\ creation_callback_ids' = r.ids
         /\ subscriptions' = r.subs
    /\ ret' = Ok(None)
    /\ op' = [name |-> "unregister_all_uuid_creation_callbacks", arg |-> None]
    /\ warnings' = << >>
    /\ UNCHANGED <<scene, next_id>>
    /\ assigned' = {}

Call_unregister_all_callbacks ==
    /\ LET r == unregister_all_callbacks(creation_callback_ids, subscriptions) IN
         /\ creation_callback_ids' = r.ids
         /\ subscriptions' = r.subs
    /\ ret' = Ok(None)
    /\ op' = [name |-> "unregister_all_callbacks", arg |-> None]
    /\ warnings' = << >>
    /\ UNCHANGED <<scene, next_id>>
    /\ assigned' = {}

Call_remove_uuid(node) ==
    /\ node \in ExistingTargets
    /\ LET r == remove_uuid(scene, node) IN
         /\ scene' = r.scene
         /\ ret' = [status |-> r.status, val |-> r.val]
         /\ warnings' = r.warnings
    /\ op' = [name |-> "_remove_uuid", arg |-> node]
    /\ UNCHANGED <<creation_callback_ids, subscriptions, next_id>>
    /\ assigned' = NewlyTagged(scene, scene')

Call_remove_all_uuids ==
    /\ LET r == remove_all_uuids(scene) IN
         /\ scene' = r.scene
         /\ ret' = [status |-> r.status, val |-> r.val]
         /\ warnings' = r.warnings
    /\ op' = [name |-> "_remove_all_uuids", arg |-> None]
    /\ UNCHANGED <<creation_callback_ids, subscriptions, next_id>>
    /\ assigned' = NewlyTagged(scene, scene')

\* The host creates a node and notifies the subscribers of "node added".
NodeAdded(node, seed) ==
    /\ node \in Paths \ Existing
    /\ ParentOk(scene, node)
    /\ scene' = dispatch_node_added([scene EXCEPT ![node] = Fresh],
                                    Cardinality(subscriptions), node, seed)
    /\ op' = [name |-> "node_added", arg |-> node]
    /\ ret' = Ok(None)
    /\ warnings' = << >>
    /\ UNCHANGED <<creation_callback_ids, subscriptions, next_id>>
    /\ assigned' = NewlyTagged(scene, scene')

Next ==
    \/ \E node \in Paths, seed \in Seeds : Call_set_uuid(node, seed)
    \/ \E seedOf \in [Range(uuid_missing_nodes(scene)) -> Seeds] : Call_set_all_uuids(seedOf)
    \/ Call_check_safety
    \/ Call_check_uuids
    \/ Call_uuid_map
    \/ \E uuid_value \in KnownValues : Call_get_node(uuid_value)
    \/ \E node \in Paths : Call_get_uuid(node)
    \/ Call_register_uuid_creation_callback
    \/ Call_unregister_all_uuid_creation_callbacks
    \/ Call_unregister_all_callbacks
    \/ \E node \in Paths : Call_remove_uuid(node)
    \/ Call_remove_all_uuids
    \/ \E node \in Paths, seed \in Seeds : NodeAdded(node, seed)

Spec == Init /\ [][Next]_vars

\* ------------------------------------------------------------------ properties
LowerHexChars == { "0", "1", "2", "3", "4", "5", "6", "7", "8", "9",
                   "a", "b", "c", "d", "e", "f" }

\* A trackable node, by the configuration alone.
Trackable(p) ==
    /\ NodeType(p) \in Range(TRACKABLE_NODE_TYPES)
    /\ p \notin Range(DEFAULT_NODES) \cup Range(UNWANTED_NODES)

\* The identity attribute exists, is locked, and holds 32 characters.
WellTagged(s, p) ==
    /\ s[p].attr.has
    /\ s[p].attr.lock
    /\ s[p].attr.val # << >>
    /\ Len(s[p].attr.val) = 32

\* The identity attribute is locked and holds 32 lowercase hexadecimal characters.
Minted(s, p) ==
    /\ WellTagged(s, p)
    /\ \A i \in 1..Len(s[p].attr.val) : s[p].attr.val[i] \in LowerHexChars

\* Positions, in the listing of the trackable nodes, of the nodes check_uuids rejects.
Offending == { i \in 1..Len(uuid_nodes(scene)) : ~WellTagged(scene, uuid_nodes(scene)[i]) }

FirstOffending == CHOOSE i \in Offending : \A j \in Offending : i <= j

\* C1: check_uuids() returns true iff every trackable node has a locked,
\* non-empty, 32-character identity attribute; otherwise it returns false with
\* one warning, naming the first offending node of the listing.
C1_CheckUuids ==
    op.name = "check_uuids" =>
        /\ ret.status = "ok"
        /\ (ret.val = TRUE) <=> (Offending = {})
        /\ Offending = {} => warnings = << >>
        /\ Offending # {} =>
              /\ ret.val = FALSE
              /\ Len(warnings) = 1
              /\ warnings[1].node = uuid_nodes(scene)[FirstOffending]

\* check_uuids has returned false on a scene with two offending nodes.
C1_Witness ==
    /\ op.name = "check_uuids"
    /\ ret.val = FALSE
    /\ Cardinality(Offending) >= 2

\* The trackable nodes that are edit-locked or referenced.
Unsafe == { p \in Range(uuid_nodes(scene)) : scene[p].locked \/ scene[p].referenced }

\* C2: check_safety() returns false iff some trackable node is edit-locked or
\* referenced, and every such node is named by a warning, whatever its place
\* in the listing; no other node is.
C2_CheckSafety ==
    op.name = "check_safety" =>
        /\ ret.status = "ok"
        /\ ret.val = (Unsafe = {})
        /\ \A p \in Unsafe : \E i \in 1..Len(warnings) : warnings[i].node = p
        /\ \A i \in 1..Len(warnings) : warnings[i].node \in Unsafe

\* check_safety has returned false on a scene with two unsafe nodes.
C2_Witness ==
    /\ op.name = "check_safety"
    /\ ret.val = FALSE
    /\ Cardinality(Unsafe) >= 2

\* C3: a set_uuid that succeeds on a node without the attribute, called
\* directly or by set_all_uuids, leaves the node with the attribute, locked,
\* its value 32 lowercase hexadecimal characters.
C3_SetUuidMints ==
    [][ /\ (op'.name = "set_uuid" /\ ret'.status = "ok" /\ ~has_uuid(scene, op'.arg))
            => (has_uuid(scene', op'.arg) /\ Minted(scene', op'.arg))
        /\ (op'.name = "set_all_uuids" /\ ret'.status = "ok")
            => \A p \in Range(uuid_missing_nodes(scene)) :
                   has_uuid(scene', p) /\ Minted(scene', p)
        /\ op'.name = "set_all_uuids"
            => \A p \in NewlyTagged(scene, scene') : Minted(scene', p)
      ]_vars

\* set_uuid has succeeded on a node, which now carries a minted identity.
C3_Witness ==
    /\ op.name = "set_uuid"
    /\ ret.status = "ok"
    /\ assigned = {op.arg}
    /\ Minted(scene, op.arg)

\* The precondition of C4: check_safety() is true and every tagged trackable
\* node is well tagged.
ReadyForBulk(s) ==
    /\ check_safety(s).val
    /\ \A p \in Range(uuid_nodes(s)) : has_uuid(s, p) => WellTagged(s, p)

\* C4: on a scene that passes check_safety() and whose tagged trackable nodes
\* are well tagged, set_all_uuids() does not fail, tags every untagged
\* trackable node, and leaves uuid_missing_nodes() empty and check_uuids() true.
C4_BulkAssign ==
    [][ (op'.name = "set_all_uuids" /\ ReadyForBulk(scene)) =>
            /\ ret'.status = "ok"
            /\ \A p \in Range(uuid_nodes(scene)) : has_uuid(scene', p)
            /\ uuid_missing_nodes(scene') = << >>
            /\ check_uuids(scene').val = TRUE
      ]_vars

\* set_all_uuids has tagged two nodes in one call.
C4_Witness ==
    /\ op.name = "set_all_uuids"
    /\ ret.status = "ok"
    /\ Cardinality(assigned) >= 2
    /\ check_uuids(scene).val = TRUE
    /\ check_safety(scene).val = TRUE

\* C5: with the hook registered once, a node-creation event for a trackable
\* node leaves the node with a minted identity, and one for a node that is
\* not trackable leaves it without the attribute.
C5_HookTagsNewNode ==
    (op.name = "node_added" /\ Len(creation_callback_ids) = 1) =>
        IF Trackable(op.arg)
        THEN has_uuid(scene, op.arg) /\ Minted(scene, op.arg)
        ELSE ~has_uuid(scene, op.arg)

SupportedCalls ==
    { "set_uuid", "set_all_uuids", "check_safety", "check_uuids", "uuid_map",
      "get_node", "get_uuid", "register_uuid_creation_callback", "node_added" }

\* C6: no supported call changes the value or the lock of an identity
\* attribute that exists, and set_uuid on a tagged node fails with the
\* failure of the pre-existing attribute.
C6_Immutable ==
    [][ op'.name \in SupportedCalls =>
            /\ \A p \in Paths : scene[p].attr.has => scene'[p].attr = scene[p].attr
            /\ (op'.name = "set_uuid" /\ has_uuid(scene, op'.arg))
                 => (ret'.status = "error" /\ ret'.val = AttrExistsError)
      ]_vars

\* set_uuid has failed on a node that carries a minted identity.
C6_Witness ==
    /\ op.name = "set_uuid"
    /\ ret.status = "error"
    /\ ret.val = AttrExistsError
    /\ Minted(scene, op.arg)

\* The nodes of the scene that carry the value.
Carriers(x) == { p \in Existing : scene[p].attr.has /\ scene[p].attr.val = x }

\* C7: for a value carried by exactly one node of the scene, get_node returns
\* that node and get_uuid of it is the value, whatever the other nodes are.
C7_RoundTrip ==
    (op.name = "get_node" /\ Cardinality(Carriers(op.arg)) = 1) =>
        /\ ret.status = "ok"
        /\ ret.val \in Carriers(op.arg)
        /\ get_uuid(scene, ret.val) = Ok(op.arg)

\* The trackable nodes that carry an identity.
TaggedTrackable == { p \in Range(uuid_nodes(scene)) : scene[p].attr.has }

\* C8: uuid_map() returns the mapping with one entry, value to full path, for
\* each trackable node that carries an identity, and nothing else.
C8_UuidMap ==
    op.name = "uuid_map" =>
        /\ ret.status = "ok"
        /\ (\A p, q \in TaggedTrackable :
                p # q => scene[p].attr.val # scene[q].attr.val)
             => ret.val = { << scene[p].attr.val, p >> : p \in TaggedTrackable }

\* The handle list holds the active subscriptions, each once.
ListExact ==
    /\ Range(creation_callback_ids) = subscriptions
    /\ Len(creation_callback_ids) = Cardinality(subscriptions)

UnregisterCalls == { "unregister_all_uuid_creation_callbacks", "unregister_all_callbacks" }

\* C9: the handle list holds exactly the handles of the active subscriptions,
\* one per registration since the last unregister; an unregister call leaves
\* no subscription and an empty list, and changes nothing on an empty list.
C9_HandleList ==
    /\ ListExact
    /\ [][ /\ ListExact'
           /\ op'.name = "register_uuid_creation_callback" =>
                 /\ creation_callback_ids' = Append(creation_callback_ids, ret'.val)
                 /\ ret'.val \notin subscriptions
           /\ op'.name \in UnregisterCalls =>
                 /\ creation_callback_ids' = << >>
                 /\ subscriptions' = {}
                 /\ creation_callback_ids = << >> =>
                        UNCHANGED <<scene, subscriptions, next_id>>
         ]_vars

\* An unregister call has emptied a list of two handles.
C9_Witness ==
    /\ op.name \in UnregisterCalls
    /\ creation_callback_ids = << >>
    /\ subscriptions = {}
    /\ next_id >= 3

\* C10: _remove_uuid(node) does not fail and leaves the node without the
\* attribute; _remove_all_uuids() leaves no node with it.
C10_Remove ==
    /\ op.name = "_remove_uuid" =>
          (ret.status = "ok" /\ ~has_uuid(scene, op.arg))
    /\ op.name = "_remove_all_uuids" =>
          (ret.status = "ok" /\ \A p \in Existing : ~has_uuid(scene, p))

====
